---- MODULE Spec2Model ----
(***************************************************************************)
(* Model of provisioner/node_pools.go: the AWS node pool provisioner.      *)
(*                                                                         *)
(* Strings that the code takes apart or builds (cluster id, stack names,   *)
(* tag keys, error texts) are sequences of string pieces; names, profiles  *)
(* and tag values are plain strings.                                       *)
(***************************************************************************)
EXTENDS Integers, Sequences, FiniteSets, TLC

(***************************************************************************)
(* Bounds of the model.                                                    *)
(***************************************************************************)
MaxStacks == 3
MaxPools == 3
MaxDesired == 2
MaxPublishers == 2

(***************************************************************************)
(* Package constants.                                                      *)
(***************************************************************************)
nodePoolTagKeyLegacy == <<"NodePool">>
nodePoolTagKey == <<"kubernetes.io/node-pool">>
nodePoolRoleTagKey == <<"kubernetes.io/role/node-pool">>
nodePoolProfileTagKey == <<"kubernetes.io/node-pool/profile">>
tagNameKubernetesClusterPrefix == <<"kubernetes.io/cluster/">>
resourceLifecycleOwned == "owned"
discountStrategyNone == "none"
discountStrategySpotMaxPrice == "spot_max_price"

(***************************************************************************)
(* Errors: Go's nil error, or an error with a text.                        *)
(***************************************************************************)
NilErr == [nil |-> TRUE, text |-> <<>>]
Err(t) == [nil |-> FALSE, text |-> t]

(***************************************************************************)
(* The cluster of the provisioner (n.Cluster): fixed id and region.        *)
(***************************************************************************)
ClusterID == <<"aws", ":", "1234", ":", "eu-central-1", ":", "kube-1">>
OtherClusterID == <<"aws", ":", "1234", ":", "eu-central-1", ":", "kube-2">>
ClusterRegion == "eu-central-1"

PoolNames == {"a", "b", "c"}

NodePool(name, profile, itype, strategy) ==
    [Name |-> name, Profile |-> profile, InstanceType |-> itype,
     DiscountStrategy |-> strategy]

\* api.NodePool{}: the zero value
EmptyNodePool == NodePool("", "", "", "")

Tag(k, v) == [Key |-> k, Value |-> v]

SeqsUpTo(S, n) == UNION { [1..k -> S] : k \in 0..n }

(***************************************************************************)
(* strings.Replace(s, ":", "-", -1) on a string given as pieces.           *)
(***************************************************************************)
RECURSIVE ReplaceAll(_, _, _)
ReplaceAll(s, old, new) ==
    IF s = <<>> THEN <<>>
    ELSE <<IF Head(s) = old THEN new ELSE Head(s)>> \o ReplaceAll(Tail(s), old, new)

\* fmt.Sprintf("nodepool-%s-%s", nodePool.Name, strings.Replace(n.Cluster.ID, ":", "-", -1))
StackNameOf(nodePool, clusterID) ==
    <<"nodepool-", nodePool.Name, "-">> \o ReplaceAll(clusterID, ":", "-")

\* a tag list whose name tag carries the profile of the pool
StackTagsNameFromProfile(nodePool, clusterID) ==
    << Tag(tagNameKubernetesClusterPrefix \o clusterID, resourceLifecycleOwned),
       Tag(nodePoolRoleTagKey, "true"),
       Tag(nodePoolTagKey, nodePool.Profile),
       Tag(nodePoolTagKeyLegacy, nodePool.Name),
       Tag(nodePoolProfileTagKey, nodePool.Name) >>

(***************************************************************************)
(* The tag list provisionNodePool attaches to the stack of a node pool.    *)
(***************************************************************************)
StackTags(nodePool, clusterID) ==
    << Tag(tagNameKubernetesClusterPrefix \o clusterID, resourceLifecycleOwned),
       Tag(nodePoolRoleTagKey, "true"),
       Tag(nodePoolTagKey, nodePool.Name),
       Tag(nodePoolTagKeyLegacy, nodePool.Name),
       Tag(nodePoolProfileTagKey, nodePool.Name) >>

\* a decoding that also takes the name from the legacy name tag
RECURSIVE DecodeTagsWithLegacy(_, _)
DecodeTagsWithLegacy(tags, np) ==
    IF tags = <<>> THEN np
    ELSE LET tag == Head(tags)
             np1 == IF tag.Key = nodePoolTagKey \/ tag.Key = nodePoolTagKeyLegacy
                    THEN [np EXCEPT !.Name = tag.Value] ELSE np
             np2 == IF tag.Key = nodePoolProfileTagKey
                    THEN [np1 EXCEPT !.Profile = tag.Value] ELSE np1
         IN  DecodeTagsWithLegacy(Tail(tags), np2)

(***************************************************************************)
(* nodePoolStackToNodePool: a later tag with the same key overwrites.      *)
(***************************************************************************)
RECURSIVE DecodeTags(_, _)
DecodeTags(tags, np) ==
    IF tags = <<>> THEN np
    ELSE LET tag == Head(tags)
             np1 == IF tag.Key = nodePoolTagKey
                    THEN [np EXCEPT !.Name = tag.Value] ELSE np
             np2 == IF tag.Key = nodePoolProfileTagKey
                    THEN [np1 EXCEPT !.Profile = tag.Value] ELSE np1
         IN  DecodeTags(Tail(tags), np2)

nodePoolStackToNodePool(stack) == DecodeTags(stack.Tags, EmptyNodePool)

\* a comparison that also takes the profile into account
inNodePoolListByNameAndProfile(nodePool, nodePools) ==
    \E i \in 1..Len(nodePools) :
        /\ nodePools[i].Name = nodePool.Name
        /\ nodePools[i].Profile = nodePool.Profile

inNodePoolList(nodePool, nodePools) ==
    \E i \in 1..Len(nodePools) : nodePools[i].Name = nodePool.Name

\* a test that never takes a stack without a decoded name for an orphan
IsOrphanNamed(stack, nodePools) ==
    /\ nodePoolStackToNodePool(stack).Name /= ""
    /\ ~ inNodePoolList(nodePoolStackToNodePool(stack), nodePools)

IsOrphan(stack, nodePools) ==
    ~ inNodePoolList(nodePoolStackToNodePool(stack), nodePools)

\* the orphans collected back to front
RECURSIVE orphanedNodePoolStacksReversed(_, _)
orphanedNodePoolStacksReversed(nodePoolStacks, nodePools) ==
    IF nodePoolStacks = <<>> THEN <<>>
    ELSE orphanedNodePoolStacksReversed(Tail(nodePoolStacks), nodePools)
         \o (IF IsOrphan(Head(nodePoolStacks), nodePools)
             THEN <<Head(nodePoolStacks)>> ELSE <<>>)

RECURSIVE orphanedNodePoolStacks(_, _)
orphanedNodePoolStacks(nodePoolStacks, nodePools) ==
    IF nodePoolStacks = <<>> THEN <<>>
    ELSE (IF IsOrphan(Head(nodePoolStacks), nodePools)
          THEN <<Head(nodePoolStacks)>> ELSE <<>>)
         \o orphanedNodePoolStacks(Tail(nodePoolStacks), nodePools)

(***************************************************************************)
(* State.                                                                  *)
(*   cluster         n.Cluster (its NodePools; id and region are fixed)    *)
(*   stacks          the provider's live stacks                            *)
(*   recPc ..        the position and locals of a Reconcile pass           *)
(*   recCalls        the ScalePool and DeleteStack calls of the pass, in   *)
(*                   call order, each with its outcome                     *)
(*   listCalls       the number of ListStacks calls of the pass            *)
(*   pubPc ..        callers of uploadUserDataToS3 on their own: position, *)
(*                   payload and result of each                            *)
(***************************************************************************)
VARIABLES cluster, stacks, bucket,
          recPc, nodePoolStacks, orphaned, recIdx, recErr, recCalls, listCalls,
          provPc, nodePools, launched, received, errorsc, errorStrs, provErr,
          values, mapWriters, pc, taskErr, seen, taskCalls,
          pubPc, pubData, pubResult

recVars == <<recPc, nodePoolStacks, orphaned, recIdx, recErr, recCalls, listCalls>>
provVars == <<provPc, nodePools, launched, received, errorsc, errorStrs, provErr>>
taskVars == <<values, mapWriters, pc, taskErr, seen, taskCalls>>
pubVars == <<pubPc, pubData, pubResult>>
vars == <<cluster, stacks, bucket, recVars, provVars, taskVars, pubVars>>

Stack(name, tags) == [StackName |-> name, Tags |-> tags]

\* the tag filter Reconcile passes to ListStacks
ReconcileTags(clusterID) ==
    { Tag(tagNameKubernetesClusterPrefix \o clusterID, resourceLifecycleOwned),
      Tag(nodePoolRoleTagKey, "true") }

\* awsAdapter.ListStacks: the live stacks that carry every tag of the filter
HasTags(stack, filter) ==
    \A f \in filter : \E i \in 1..Len(stack.Tags) : stack.Tags[i] = f

\* the listings of a set of stacks: the provider returns them in any order
Listings(S) ==
    { s \in [1..Cardinality(S) -> S] : \A i, j \in 1..Cardinality(S) : i /= j => s[i] /= s[j] }

ListStacks(filter) == Listings({ st \in stacks : HasTags(st, filter) })

\* awsAdapter.DeleteStack on success: the stack is gone
RemoveStack(sts, name) == { st \in sts : st.StackName /= name }

Call(op, stack, pool, ok) == [op |-> op, stack |-> stack, pool |-> pool, ok |-> ok]

\* a listing whose error is swallowed
ReconcileListErrorSwallowed ==
    /\ recPc = "idle"
    /\ listCalls' = listCalls + 1
    /\ \/ /\ recPc' = "returned"
          /\ UNCHANGED <<nodePoolStacks, orphaned, recIdx>>
       \/ /\ nodePoolStacks' \in ListStacks(ReconcileTags(cluster.ID))
          /\ orphaned' = orphanedNodePoolStacks(nodePoolStacks', cluster.NodePools)
          /\ recIdx' = 1
          /\ recPc' = IF orphaned' = <<>> THEN "returned" ELSE "drain"
    /\ recErr' = NilErr
    /\ UNCHANGED <<cluster, stacks, bucket, recCalls, provVars, taskVars, pubVars>>

(***************************************************************************)
(* Reconcile, lines 204-221: list the stacks and find the orphans.         *)
(***************************************************************************)
ReconcileList ==
    /\ recPc = "idle"
    /\ listCalls' = listCalls + 1
    /\ \/ /\ recErr' = Err(<<"ListStacks failed">>)
          /\ recPc' = "returned"
          /\ UNCHANGED <<nodePoolStacks, orphaned, recIdx>>
       \/ /\ nodePoolStacks' \in ListStacks(ReconcileTags(cluster.ID))
          /\ orphaned' = orphanedNodePoolStacks(nodePoolStacks', cluster.NodePools)
          /\ recIdx' = 1
          /\ recPc' = IF orphaned' = <<>> THEN "returned" ELSE "drain"
          /\ recErr' = NilErr
    /\ UNCHANGED <<cluster, stacks, bucket, recCalls, provVars, taskVars, pubVars>>

\* a drain whose error is dropped: the delete follows in either case
ReconcileDrainErrorDropped ==
    /\ recPc = "drain"
    /\ LET stack == orphaned[recIdx]
           nodePool == nodePoolStackToNodePool(stack)
       IN \E ok \in BOOLEAN :
            recCalls' = Append(recCalls, Call("ScalePool", stack.StackName, nodePool.Name, ok))
    /\ recPc' = "delete"
    /\ UNCHANGED <<cluster, stacks, bucket, nodePoolStacks, orphaned, recIdx, recErr,
                   listCalls, provVars, taskVars, pubVars>>

(***************************************************************************)
(* Reconcile, lines 223-230: decode the orphan and scale its pool to 0.    *)
(***************************************************************************)
ReconcileDrain ==
    /\ recPc = "drain"
    /\ LET stack == orphaned[recIdx]
           nodePool == nodePoolStackToNodePool(stack)
       IN \/ /\ recCalls' = Append(recCalls, Call("ScalePool", stack.StackName, nodePool.Name, TRUE))
             /\ recPc' = "delete"
             /\ UNCHANGED recErr
          \/ /\ recCalls' = Append(recCalls, Call("ScalePool", stack.StackName, nodePool.Name, FALSE))
             /\ recErr' = Err(<<"ScalePool failed: ">> \o stack.StackName)
             /\ recPc' = "returned"
    /\ UNCHANGED <<cluster, stacks, bucket, nodePoolStacks, orphaned, recIdx, listCalls, provVars, taskVars, pubVars>>

\* a delete whose failure is remembered while the loop goes on
ReconcileDeleteContinue ==
    /\ recPc = "delete"
    /\ LET stack == orphaned[recIdx]
           nodePool == nodePoolStackToNodePool(stack)
       IN \/ /\ recCalls' = Append(recCalls, Call("DeleteStack", stack.StackName, nodePool.Name, TRUE))
             /\ stacks' = RemoveStack(stacks, stack.StackName)
             /\ UNCHANGED recErr
          \/ /\ recCalls' = Append(recCalls, Call("DeleteStack", stack.StackName, nodePool.Name, FALSE))
             /\ recErr' = Err(<<"DeleteStack failed: ">> \o stack.StackName)
             /\ UNCHANGED stacks
    /\ recIdx' = recIdx + 1
    /\ recPc' = IF recIdx + 1 > Len(orphaned) THEN "returned" ELSE "drain"
    /\ UNCHANGED <<cluster, bucket, nodePoolStacks, orphaned, listCalls, provVars, taskVars, pubVars>>

(***************************************************************************)
(* Reconcile, lines 232-239: delete the orphan's stack, go on to the next  *)
(* orphan or return nil after the last.                                    *)
(***************************************************************************)
ReconcileDelete ==
    /\ recPc = "delete"
    /\ LET stack == orphaned[recIdx]
           nodePool == nodePoolStackToNodePool(stack)
       IN \/ /\ recCalls' = Append(recCalls, Call("DeleteStack", stack.StackName, nodePool.Name, TRUE))
             /\ stacks' = RemoveStack(stacks, stack.StackName)
             /\ recIdx' = recIdx + 1
             /\ recPc' = IF recIdx + 1 > Len(orphaned) THEN "returned" ELSE "drain"
             /\ UNCHANGED recErr
          \/ /\ recCalls' = Append(recCalls, Call("DeleteStack", stack.StackName, nodePool.Name, FALSE))
             /\ recErr' = Err(<<"DeleteStack failed: ">> \o stack.StackName)
             /\ recPc' = "returned"
             /\ UNCHANGED <<stacks, recIdx>>
    /\ UNCHANGED <<cluster, bucket, nodePoolStacks, orphaned, listCalls, provVars, taskVars, pubVars>>

(***************************************************************************)
(* The static pricing table awsExt.InstanceInfo(): instance type ->        *)
(* region -> on-demand price.                                              *)
(***************************************************************************)
InstanceInfo ==
    [ t \in {"m5.large", "c5.large", "m5.metal"} |->
        IF t = "m5.large" THEN [ r \in {"eu-central-1", "us-east-1"} |->
                                   IF r = "eu-central-1" THEN "0.115" ELSE "0.096" ]
        ELSE IF t = "c5.large" THEN [ r \in {"eu-central-1"} |-> "0.097" ]
        ELSE [ r \in {"us-east-1"} |-> "4.608" ] ]

\* policy filter of the pools Provision handles
LegacyProfiles == {"legacy"}

getNonLegacyNodePools(c) ==
    SelectSeq(c.NodePools, LAMBDA np : np.Profile \notin LegacyProfiles)

\* values[k] = v on a Go map
MapSet(m, k, v) == [ x \in DOMAIN m \cup {k} |-> IF x = k THEN v ELSE m[x] ]

\* sha512 + hex: injective on the payloads (collision resistance)
Sha512Hex(userData) == <<"sha512(">> \o userData \o <<")">>

\* an object name that does not depend on the payload
ObjectNameFixed(userData) == <<"userdata">>

ObjectName(userData) == Sha512Hex(userData) \o <<".userdata">>

\* the ignition payload of a pool: the user data template of its profile
\* rendered with the values it refers to
UserDataOf(nodePool, vals) == <<"ignition:", nodePool.Profile, vals["apiserver"]>>

\* s3Uploader.Upload: put with overwrite
PutObject(b, key, body) == { o \in b : o.Key /= key } \cup { [Key |-> key, Body |-> body] }

\* awsAdapter.applyStack: create or update the stack of that name
ApplyStack(sts, name, tags) ==
    { st \in sts : st.StackName /= name } \cup { Stack(name, tags) }

Tasks == 1..Len(nodePools)

\* Provision is running and the process has not died
Alive == provPc = "collect"

(***************************************************************************)
(* Provision, lines 104-116: select the pools, make the result channel and *)
(* start one goroutine per pool; the loop does not block.  Without target  *)
(* pools both loops are empty and Provision returns nil.                   *)
(***************************************************************************)
LaunchAll(n) == [ p \in 1..n |-> "start" ]

ProvisionStart ==
    /\ provPc = "idle"
    /\ nodePools' = getNonLegacyNodePools(cluster)
    /\ pc' = LaunchAll(Len(nodePools'))
    /\ launched' = Len(pc')
    /\ received' = 0
    /\ errorsc' = <<>>
    /\ errorStrs' = <<>>
    /\ taskErr' = [ p \in 1..Len(nodePools') |-> NilErr ]
    /\ seen' = [ p \in 1..Len(nodePools') |-> <<>> ]
    /\ taskCalls' = [ p \in 1..Len(nodePools') |-> <<>> ]
    /\ provPc' = IF Len(nodePools') = 0 THEN "returned" ELSE "collect"
    /\ provErr' = NilErr
    /\ UNCHANGED <<cluster, stacks, bucket, recVars, pubVars, values, mapWriters>>

\* a join that keeps the first text only
JoinFirstOnly(strs, sep) == IF strs = <<>> THEN <<>> ELSE Head(strs)

\* errors.New(strings.Join(errorStrs, ", "))
RECURSIVE Join(_, _)
Join(strs, sep) ==
    IF strs = <<>> THEN <<>>
    ELSE IF Len(strs) = 1 THEN Head(strs)
    ELSE Head(strs) \o <<sep>> \o Join(Tail(strs), sep)

\* a receive loop that returns on the first error it receives
ProvisionCollectFailFast ==
    /\ provPc = "collect"
    /\ received < Len(nodePools)
    /\ errorsc /= <<>>
    /\ LET err == Head(errorsc)
           strs == IF err.nil THEN errorStrs ELSE Append(errorStrs, err.text)
       IN /\ errorsc' = Tail(errorsc)
          /\ errorStrs' = strs
          /\ received' = received + 1
          /\ IF received + 1 = Len(nodePools) \/ ~ err.nil
             THEN /\ provPc' = "returned"
                  /\ provErr' = IF Len(strs) > 0 THEN Err(Join(strs, ", ")) ELSE NilErr
             ELSE UNCHANGED <<provPc, provErr>>
    /\ UNCHANGED <<cluster, stacks, bucket, recVars, pubVars, nodePools, launched, taskVars>>

(***************************************************************************)
(* Provision, lines 118-130: receive one result; after the last one        *)
(* return the joined error texts, or nil when there are none.              *)
(***************************************************************************)
ProvisionCollect ==
    /\ provPc = "collect"
    /\ received < Len(nodePools)
    /\ errorsc /= <<>>
    /\ LET err == Head(errorsc)
           strs == IF err.nil THEN errorStrs ELSE Append(errorStrs, err.text)
       IN /\ errorsc' = Tail(errorsc)
          /\ errorStrs' = strs
          /\ received' = received + 1
          /\ IF received + 1 = Len(nodePools)
             THEN /\ provPc' = "returned"
                  /\ provErr' = IF Len(strs) > 0 THEN Err(Join(strs, ", ")) ELSE NilErr
             ELSE UNCHANGED <<provPc, provErr>>
    /\ UNCHANGED <<cluster, stacks, bucket, recVars, pubVars, nodePools, launched, taskVars>>

(***************************************************************************)
(* The tasks share the map `values`.  A Go map is not safe for concurrent  *)
(* use: an access that overlaps a write of another goroutine is a data     *)
(* race, after which the runtime may throw "concurrent map writes" /       *)
(* "concurrent map read and map write" and end the process, or may let the *)
(* access go through.  mapWriters is the set of tasks inside an            *)
(* assignment to the map.                                                  *)
(***************************************************************************)
Goto(p, l) == pc' = [pc EXCEPT ![p] = l]

Fail(p, text) ==
    /\ taskErr' = [taskErr EXCEPT ![p] = Err(text)]
    /\ Goto(p, "send")

Called(p, op) == taskCalls' = [taskCalls EXCEPT ![p] = Append(@, op)]

(***************************************************************************)
(* provisionNodePool, line 135: values["spot_price"] = "" (the assignment  *)
(* begins).                                                                *)
(***************************************************************************)
ResetSpotPrice(p) ==
    /\ Alive
    /\ pc[p] = "start"
    /\ \/ /\ mapWriters' = mapWriters \cup {p}
          /\ Goto(p, "reset")
          /\ UNCHANGED provPc
       \/ /\ mapWriters /= {}
          /\ provPc' = "crashed"
          /\ UNCHANGED <<mapWriters, pc>>
    /\ UNCHANGED <<cluster, stacks, bucket, recVars, pubVars, nodePools, launched, received,
                   errorsc, errorStrs, provErr, values, taskErr, seen, taskCalls>>

\* line 135: the assignment completes
ResetSpotPriceDone(p) ==
    /\ Alive
    /\ pc[p] = "reset"
    /\ values' = MapSet(values, "spot_price", "")
    /\ mapWriters' = mapWriters \ {p}
    /\ Goto(p, "switch")
    /\ UNCHANGED <<cluster, stacks, bucket, recVars, pubVars, provVars, taskErr, seen, taskCalls>>

\* a switch that goes on without a price when the table has none
ResolvePriceFallback(p) ==
    /\ Alive
    /\ pc[p] = "switch"
    /\ LET nodePool == nodePools[p]
       IN IF nodePool.DiscountStrategy = discountStrategySpotMaxPrice
             /\ nodePool.InstanceType \in DOMAIN InstanceInfo
             /\ cluster.Region \in DOMAIN InstanceInfo[nodePool.InstanceType]
          THEN \/ /\ mapWriters' = mapWriters \cup {p}
                  /\ Goto(p, "price")
                  /\ UNCHANGED <<taskErr, provPc>>
               \/ /\ mapWriters /= {}
                  /\ provPc' = "crashed"
                  /\ UNCHANGED <<mapWriters, pc, taskErr>>
          ELSE /\ Goto(p, "render")
               /\ UNCHANGED <<taskErr, mapWriters, provPc>>
    /\ UNCHANGED <<cluster, stacks, bucket, recVars, pubVars, nodePools, launched, received,
                   errorsc, errorStrs, provErr, values, seen, taskCalls>>

(***************************************************************************)
(* provisionNodePool, lines 137-154: the switch on the discount strategy;  *)
(* for SpotMaxPrice with a known price the assignment of line 151 begins.  *)
(***************************************************************************)
ResolvePrice(p) ==
    /\ Alive
    /\ pc[p] = "switch"
    /\ LET nodePool == nodePools[p]
       IN IF nodePool.DiscountStrategy = discountStrategyNone
          THEN /\ Goto(p, "render")
               /\ UNCHANGED <<taskErr, mapWriters, provPc>>
          ELSE IF nodePool.DiscountStrategy = discountStrategySpotMaxPrice
          THEN IF nodePool.InstanceType \notin DOMAIN InstanceInfo
               THEN /\ Fail(p, <<"unknown instance type ", nodePool.InstanceType>>)
                    /\ UNCHANGED <<mapWriters, provPc>>
               ELSE IF cluster.Region \notin DOMAIN InstanceInfo[nodePool.InstanceType]
               THEN /\ Fail(p, <<"no price data for region ", cluster.Region,
                                 ", instance type ", nodePool.InstanceType>>)
                    /\ UNCHANGED <<mapWriters, provPc>>
               ELSE \/ /\ mapWriters' = mapWriters \cup {p}
                       /\ Goto(p, "price")
                       /\ UNCHANGED <<taskErr, provPc>>
                    \/ /\ mapWriters /= {}
                       /\ provPc' = "crashed"
                       /\ UNCHANGED <<mapWriters, pc, taskErr>>
          ELSE /\ Fail(p, <<"unsupported node pool discount_strategy ",
                            nodePool.DiscountStrategy>>)
               /\ UNCHANGED <<mapWriters, provPc>>
    /\ UNCHANGED <<cluster, stacks, bucket, recVars, pubVars, nodePools, launched, received,
                   errorsc, errorStrs, provErr, values, seen, taskCalls>>

\* line 151: values["spot_price"] = onDemandPrice completes
SetSpotPriceDone(p) ==
    /\ Alive
    /\ pc[p] = "price"
    /\ values' = MapSet(values, "spot_price",
                        InstanceInfo[nodePools[p].InstanceType][cluster.Region])
    /\ mapWriters' = mapWriters \ {p}
    /\ Goto(p, "render")
    /\ UNCHANGED <<cluster, stacks, bucket, recVars, pubVars, provVars, taskErr, seen, taskCalls>>

(***************************************************************************)
(* generateNodePoolStackTemplate, lines 66-99, with prepareUserData and    *)
(* uploadUserDataToS3: render the user data template of the profile,       *)
(* publish the payload under the name of its hash, render the stack        *)
(* template.  Both renderings read values; the stack template refers to    *)
(* spot_price.  Each step can fail and ends the function.                  *)
(***************************************************************************)
CalledAll(p, ops) == taskCalls' = [taskCalls EXCEPT ![p] = @ \o ops]

GenerateNodePoolStackTemplate(p) ==
    /\ Alive
    /\ pc[p] = "render"
    /\ LET userData == UserDataOf(nodePools[p], values)
       IN \/ /\ CalledAll(p, <<"renderUserData">>)
             /\ Fail(p, <<"failed to render user data of profile ", nodePools[p].Profile>>)
             /\ UNCHANGED <<seen, bucket, provPc>>
          \/ /\ CalledAll(p, <<"renderUserData", "uploadUserDataToS3">>)
             /\ Fail(p, <<"failed to upload user data">>)
             /\ UNCHANGED <<seen, bucket, provPc>>
          \/ /\ CalledAll(p, <<"renderUserData", "uploadUserDataToS3", "renderStack">>)
             /\ bucket' = PutObject(bucket, ObjectName(userData), userData)
             /\ Fail(p, <<"failed to render stack of profile ", nodePools[p].Profile>>)
             /\ UNCHANGED <<seen, provPc>>
          \/ /\ CalledAll(p, <<"renderUserData", "uploadUserDataToS3", "renderStack">>)
             /\ bucket' = PutObject(bucket, ObjectName(userData), userData)
             /\ seen' = [seen EXCEPT ![p] = Append(@, values["spot_price"])]
             /\ Goto(p, "apply")
             /\ UNCHANGED <<taskErr, provPc>>
          \/ /\ mapWriters /= {}
             /\ provPc' = "crashed"
             /\ UNCHANGED <<pc, taskErr, seen, taskCalls, bucket>>
    /\ UNCHANGED <<cluster, stacks, recVars, pubVars, nodePools, launched, received,
                   errorsc, errorStrs, provErr, values, mapWriters>>

\* an apply whose error is not checked: the wait follows in either case
ApplyNodePoolStackUnchecked(p) ==
    /\ Alive
    /\ pc[p] = "apply"
    /\ Called(p, "applyStack")
    /\ \/ stacks' = ApplyStack(stacks, StackNameOf(nodePools[p], cluster.ID),
                               StackTags(nodePools[p], cluster.ID))
       \/ UNCHANGED stacks
    /\ Goto(p, "wait")
    /\ UNCHANGED <<cluster, bucket, recVars, pubVars, provVars, values, mapWriters, seen, taskErr>>

(***************************************************************************)
(* provisionNodePool, lines 162-190: name and tag the stack, apply it.     *)
(***************************************************************************)
ApplyNodePoolStack(p) ==
    /\ Alive
    /\ pc[p] = "apply"
    /\ Called(p, "applyStack")
    /\ \/ /\ stacks' = ApplyStack(stacks, StackNameOf(nodePools[p], cluster.ID),
                                  StackTags(nodePools[p], cluster.ID))
          /\ Goto(p, "wait")
          /\ UNCHANGED taskErr
       \/ /\ Fail(p, <<"applyStack rejected">>)
          /\ UNCHANGED stacks
    /\ UNCHANGED <<cluster, bucket, recVars, pubVars, provVars, values, mapWriters, seen>>

\* a wait that is tried a second time after its first failure
WaitForNodePoolStackRetry(p) ==
    /\ Alive
    /\ pc[p] = "wait"
    /\ Called(p, "waitForStack")
    /\ \/ /\ Goto(p, "send")
          /\ UNCHANGED taskErr
       \/ /\ \E i \in 1..Len(taskCalls[p]) : taskCalls[p][i] = "waitForStack"
          /\ Fail(p, <<"waitForStack timed out">>)
       \/ /\ \A i \in 1..Len(taskCalls[p]) : taskCalls[p][i] /= "waitForStack"
          /\ UNCHANGED <<pc, taskErr>>
    /\ UNCHANGED <<cluster, stacks, bucket, recVars, pubVars, provVars, values, mapWriters, seen>>

(***************************************************************************)
(* provisionNodePool, lines 192-199: wait for the stack, bounded by        *)
(* maxWaitTimeout.                                                         *)
(***************************************************************************)
WaitForNodePoolStack(p) ==
    /\ Alive
    /\ pc[p] = "wait"
    /\ Called(p, "waitForStack")
    /\ \/ /\ Goto(p, "send")
          /\ UNCHANGED taskErr
       \/ Fail(p, <<"waitForStack timed out">>)
    /\ UNCHANGED <<cluster, stacks, bucket, recVars, pubVars, provVars, values, mapWriters, seen>>

(***************************************************************************)
(* Provision, lines 110-114: wrap the error of the task with the pool's    *)
(* name and send the result; the channel holds len(nodePools) results.     *)
(***************************************************************************)
ChanCap == Len(nodePools)

WrapErr(nodePool, err) ==
    IF err.nil THEN NilErr
    ELSE Err(<<"failed to provision node pool ", nodePool.Name, ": ">> \o err.text)

SendResult(p) ==
    /\ Alive
    /\ pc[p] = "send"
    /\ Len(errorsc) < ChanCap
    /\ errorsc' = Append(errorsc, WrapErr(nodePools[p], taskErr[p]))
    /\ Goto(p, "done")
    /\ UNCHANGED <<cluster, stacks, bucket, recVars, pubVars, provPc, nodePools, launched, received,
                   errorStrs, provErr, values, mapWriters, taskErr, seen, taskCalls>>

Task(p) ==
    \/ ResetSpotPrice(p)
    \/ ResetSpotPriceDone(p)
    \/ ResolvePrice(p)
    \/ SetSpotPriceDone(p)
    \/ GenerateNodePoolStackTemplate(p)
    \/ ApplyNodePoolStack(p)
    \/ WaitForNodePoolStack(p)
    \/ SendResult(p)

(***************************************************************************)
(* uploadUserDataToS3 called on its own by several callers, each with a    *)
(* payload (n.bucketName is fixed).                                        *)
(***************************************************************************)
BucketName == <<"cluster-bucket">>

\* fmt.Sprintf("s3://%s/%s", bucketName, objectName)
UserDataURI(bucketName, userData) == <<"s3://">> \o bucketName \o <<"/">> \o ObjectName(userData)

PubResult(uri, err) == [uri |-> uri, err |-> err]

Publishers == DOMAIN pubPc

\* lines 272-276: create the bucket if it does not exist
PublishCreateBucket(q) ==
    /\ pubPc[q] = "create"
    /\ \/ /\ pubPc' = [pubPc EXCEPT ![q] = "upload"]
          /\ UNCHANGED pubResult
       \/ /\ pubPc' = [pubPc EXCEPT ![q] = "done"]
          /\ pubResult' = [pubResult EXCEPT ![q] = PubResult(<<>>, Err(<<"createS3Bucket failed">>))]
    /\ UNCHANGED <<cluster, stacks, bucket, recVars, provVars, taskVars, pubData>>

\* lines 278-298: hash the payload, upload it under that name, return the URI
PublishUploadOk(q) ==
    /\ pubPc[q] = "upload"
    /\ bucket' = PutObject(bucket, ObjectName(pubData[q]), pubData[q])
    /\ pubPc' = [pubPc EXCEPT ![q] = "done"]
    /\ pubResult' = [pubResult EXCEPT ![q] = PubResult(UserDataURI(BucketName, pubData[q]), NilErr)]
    /\ UNCHANGED <<cluster, stacks, recVars, provVars, taskVars, pubData>>

\* lines 294-296: the upload failed
PublishUploadFail(q) ==
    /\ pubPc[q] = "upload"
    /\ pubPc' = [pubPc EXCEPT ![q] = "done"]
    /\ pubResult' = [pubResult EXCEPT ![q] = PubResult(<<>>, Err(<<"Upload failed">>))]
    /\ UNCHANGED <<cluster, stacks, bucket, recVars, provVars, taskVars, pubData>>

(***************************************************************************)
(* Idle values of the locals of the pass that is not running.              *)
(***************************************************************************)
\* the mapping the caller passes to Provision
BaseValues == [ k \in {"apiserver"} |-> "v1" ]

ReconcileIdle ==
    /\ recPc = "idle"
    /\ nodePoolStacks = <<>>
    /\ orphaned = <<>>
    /\ recIdx = 0
    /\ recErr = NilErr
    /\ recCalls = <<>>
    /\ listCalls = 0

ProvisionIdle ==
    /\ provPc = "idle"
    /\ nodePools = <<>>
    /\ launched = 0
    /\ received = 0
    /\ errorsc = <<>>
    /\ errorStrs = <<>>
    /\ provErr = NilErr
    /\ values = BaseValues
    /\ mapWriters = {}
    /\ pc = <<>>
    /\ taskErr = <<>>
    /\ seen = <<>>
    /\ taskCalls = <<>>

PublishIdle ==
    /\ pubPc = <<>>
    /\ pubData = <<>>
    /\ pubResult = <<>>

(***************************************************************************)
(* Initial states of a Provision pass: a cluster of up to MaxPools pools,  *)
(* named by position, of any kind; no stacks and an empty bucket.          *)
(***************************************************************************)
PoolNameAt(i) == <<"a", "b", "c", "d", "e">>[i]

PoolKind(profile, itype, strategy) ==
    [Profile |-> profile, InstanceType |-> itype, DiscountStrategy |-> strategy]

PoolKinds ==
    << PoolKind("worker", "m5.large", discountStrategyNone),
       PoolKind("worker", "m5.large", discountStrategySpotMaxPrice),
       PoolKind("worker", "m5.metal", discountStrategySpotMaxPrice),
       PoolKind("worker", "x9.bogus", discountStrategySpotMaxPrice),
       PoolKind("worker", "m5.large", "reserved"),
       PoolKind("legacy", "m5.large", discountStrategyNone) >>

\* the tasks of a pass run concurrently and differ only in the pool they are
\* given, so the kinds are taken in non-decreasing order
ProvisionClusters ==
    { [ID |-> ClusterID, Region |-> ClusterRegion,
       NodePools |-> [ i \in 1..Len(ks) |->
                         NodePool(PoolNameAt(i), PoolKinds[ks[i]].Profile,
                                  PoolKinds[ks[i]].InstanceType,
                                  PoolKinds[ks[i]].DiscountStrategy) ]] :
        ks \in { s \in SeqsUpTo(1..Len(PoolKinds), MaxPools) :
                   \A i \in 1..Len(s) - 1 : s[i] <= s[i + 1] } }

ProvisionInit ==
    /\ cluster \in ProvisionClusters
    /\ stacks = {}
    /\ bucket = {}
    /\ ReconcileIdle
    /\ ProvisionIdle
    /\ PublishIdle

ProvisionNext ==
    \/ ProvisionStart
    \/ ProvisionCollect
    \/ \E p \in Tasks : Task(p)

SpecProvision == ProvisionInit /\ [][ProvisionNext]_vars

\* the Go scheduler runs every runnable goroutine: a task that can take a
\* step takes one, and Provision receives a result that is in the channel
FairSpecProvision ==
    /\ SpecProvision
    /\ WF_vars(ProvisionCollect)
    /\ WF_vars(\E p \in Tasks : Task(p))

(***************************************************************************)
(* Initial states of a Reconcile pass: any desired pool list with distinct *)
(* names and any list of live stacks with distinct stack names.            *)
(***************************************************************************)
ReconcilePools ==
    { NodePool(nm, pr, "m5.large", discountStrategyNone) :
        nm \in PoolNames \cup {""}, pr \in {"worker"} }

\* live stacks: stacks as Provision tags them (also of other clusters),
\* stacks with the ownership and role tags and no name tag (one of them
\* with the legacy name tag and a profile tag), a foreign one and one
\* without tags
StackUniverse ==
    { Stack(StackNameOf(NodePool(nm, "worker", "", ""), ClusterID),
            StackTags(NodePool(nm, "worker", "", ""), ClusterID)) : nm \in PoolNames }
    \cup { Stack(StackNameOf(NodePool("a", "worker", "", ""), OtherClusterID),
                 StackTags(NodePool("a", "worker", "", ""), OtherClusterID)) }
    \cup { Stack(<<"nameless">>,
                 << Tag(tagNameKubernetesClusterPrefix \o ClusterID, resourceLifecycleOwned),
                    Tag(nodePoolRoleTagKey, "true") >>) }
    \cup { Stack(<<"legacy-only">>,
                 << Tag(tagNameKubernetesClusterPrefix \o ClusterID, resourceLifecycleOwned),
                    Tag(nodePoolRoleTagKey, "true"),
                    Tag(nodePoolTagKeyLegacy, "b"),
                    Tag(nodePoolProfileTagKey, "worker") >>) }
    \cup { Stack(<<"vpc">>, << Tag(<<"Name">>, "a") >>) }
    \cup { Stack(<<"untagged">>, <<>>) }

ReconcileInit ==
    /\ cluster \in { [ID |-> ClusterID, Region |-> ClusterRegion, NodePools |-> nps] :
                       nps \in { s \in SeqsUpTo(ReconcilePools, MaxDesired) :
                                   \A i, j \in 1..Len(s) : i /= j => s[i].Name /= s[j].Name } }
    /\ stacks \in { S \in SUBSET StackUniverse : Cardinality(S) <= MaxStacks }
    /\ bucket = {}
    /\ ReconcileIdle
    /\ ProvisionIdle
    /\ PublishIdle

ReconcileNext == ReconcileList \/ ReconcileDrain \/ ReconcileDelete

SpecReconcile == ReconcileInit /\ [][ReconcileNext]_vars

(***************************************************************************)
(* Initial states for uploadUserDataToS3 on its own: up to MaxPublishers   *)
(* callers, each with one of the payloads, and a bucket that is empty or   *)
(* already holds one of them.                                              *)
(***************************************************************************)
Payloads ==
    { UserDataOf(NodePool("a", pr, "", ""), [ k \in {"apiserver"} |-> v ]) :
        pr \in {"worker", "master"}, v \in {"v1", "v2"} }

PublishInit ==
    /\ cluster = [ID |-> ClusterID, Region |-> ClusterRegion, NodePools |-> <<>>]
    /\ stacks = {}
    /\ bucket \in { {} } \cup { { [Key |-> ObjectName(x), Body |-> x] } : x \in Payloads }
    /\ ReconcileIdle
    /\ ProvisionIdle
    /\ \E n \in 1..MaxPublishers :
          /\ pubData \in [1..n -> Payloads]
          /\ pubPc = [ q \in 1..n |-> "create" ]
          /\ pubResult = [ q \in 1..n |-> PubResult(<<>>, NilErr) ]

PublishNext ==
    \E q \in Publishers :
       \/ PublishCreateBucket(q)
       \/ PublishUploadOk(q)
       \/ PublishUploadFail(q)

SpecPublish == PublishInit /\ [][PublishNext]_vars

(***************************************************************************)
(* The control loop that owns the provisioner: it calls Provision and      *)
(* Reconcile one after the other, in any order and any number of times,    *)
(* against one cluster specification.  A call starts when no other call is *)
(* running; the locals of a call are gone once the caller has its result,  *)
(* and the caller builds the values anew for the next call.                *)
(***************************************************************************)
LoopKinds == <<1, 2, 6>>

LoopClusters ==
    { c \in ProvisionClusters :
        /\ Len(c.NodePools) <= MaxDesired
        /\ \A i \in 1..Len(c.NodePools) :
              \E k \in 1..Len(LoopKinds) :
                 /\ c.NodePools[i].Profile = PoolKinds[LoopKinds[k]].Profile
                 /\ c.NodePools[i].InstanceType = PoolKinds[LoopKinds[k]].InstanceType
                 /\ c.NodePools[i].DiscountStrategy = PoolKinds[LoopKinds[k]].DiscountStrategy }

LoopStacks ==
    { st \in StackUniverse :
        st.StackName \in { StackNameOf(NodePool("a", "worker", "", ""), ClusterID),
                           StackNameOf(NodePool("c", "worker", "", ""), ClusterID),
                           <<"nameless">> } }

LoopInit ==
    /\ cluster \in LoopClusters
    /\ stacks \in SUBSET LoopStacks
    /\ bucket = {}
    /\ ReconcileIdle
    /\ ProvisionIdle
    /\ PublishIdle

LoopProvision == recPc = "idle" /\ ProvisionNext

LoopReconcile == provPc = "idle" /\ ReconcileNext

LoopNextRound ==
    /\ provPc = "returned" \/ recPc = "returned"
    /\ recPc' = "idle" /\ nodePoolStacks' = <<>> /\ orphaned' = <<>> /\ recIdx' = 0
    /\ recErr' = NilErr /\ recCalls' = <<>> /\ listCalls' = 0
    /\ provPc' = "idle" /\ nodePools' = <<>> /\ launched' = 0 /\ received' = 0
    /\ errorsc' = <<>> /\ errorStrs' = <<>> /\ provErr' = NilErr
    /\ values' = BaseValues /\ mapWriters' = {}
    /\ pc' = <<>> /\ taskErr' = <<>> /\ seen' = <<>> /\ taskCalls' = <<>>
    /\ UNCHANGED <<cluster, stacks, bucket, pubVars>>

LoopNext == LoopProvision \/ LoopReconcile \/ LoopNextRound

SpecLoop == LoopInit /\ [][LoopNext]_vars

(***************************************************************************)
(* Properties of Reconcile.                                                *)
(***************************************************************************)
DesiredNames == { cluster.NodePools[i].Name : i \in 1..Len(cluster.NodePools) }

\* the value of the last tag of a stack with the given key, "" without one
TagValue(stack, key) ==
    LET at == { i \in 1..Len(stack.Tags) : stack.Tags[i].Key = key }
    IN IF at = {} THEN ""
       ELSE stack.Tags[CHOOSE i \in at : \A j \in at : j <= i].Value

CallsOf(op, name) ==
    { j \in 1..Len(recCalls) : recCalls[j].op = op /\ recCalls[j].stack = name }

DrainError(name) == Err(<<"ScalePool failed: ">> \o name)
DeleteError(name) == Err(<<"DeleteStack failed: ">> \o name)

\* C1: a DeleteStack call for a stack comes only after a ScalePool call for
\* that stack's pool has succeeded in the same pass; after a failed drain
\* of a stack there is no DeleteStack call for it, the stack is still
\* live, and Reconcile has returned the error of that drain.
C1_DrainBeforeDelete ==
    /\ \A j \in 1..Len(recCalls) :
         recCalls[j].op = "DeleteStack" =>
           \E i \in 1..(j - 1) :
              /\ recCalls[i].op = "ScalePool"
              /\ recCalls[i].stack = recCalls[j].stack
              /\ recCalls[i].ok
    /\ \A i \in 1..Len(recCalls) :
         (recCalls[i].op = "ScalePool" /\ ~ recCalls[i].ok) =>
           /\ CallsOf("DeleteStack", recCalls[i].stack) = {}
           /\ \E st \in stacks : st.StackName = recCalls[i].stack
           /\ recPc = "returned"
           /\ recErr = DrainError(recCalls[i].stack)

\* the first orphan is drained and deleted, the drain of the second fails
C1_Witness ==
    /\ Len(recCalls) = 3
    /\ recCalls[2].op = "DeleteStack" /\ recCalls[2].ok
    /\ recCalls[3].op = "ScalePool" /\ ~ recCalls[3].ok
    /\ recPc = "returned"

\* C7: the orphans are exactly the listed stacks whose name tag names no
\* desired pool, in listing order, whatever the profiles; every ScalePool
\* and DeleteStack call is for one of these stacks, none for a retained one.
C7_OrphansExact ==
    /\ orphaned = SelectSeq(nodePoolStacks,
                            LAMBDA st : TagValue(st, nodePoolTagKey) \notin DesiredNames)
    /\ \A j \in 1..Len(recCalls) :
         \E i \in 1..Len(nodePoolStacks) :
            /\ nodePoolStacks[i].StackName = recCalls[j].stack
            /\ TagValue(nodePoolStacks[i], nodePoolTagKey) \notin DesiredNames
            /\ TagValue(nodePoolStacks[i], nodePoolTagKey) = recCalls[j].pool

\* a pass that returned nil, with a retained stack (whose profile tag
\* differs from the desired pool's profile) and a decommissioned orphan
C7_Witness ==
    /\ recPc = "returned"
    /\ recErr.nil
    /\ Len(orphaned) >= 1
    /\ Len(recCalls) = 2 * Len(orphaned)
    /\ \E i \in 1..Len(nodePoolStacks), k \in 1..Len(cluster.NodePools) :
          /\ TagValue(nodePoolStacks[i], nodePoolTagKey) = cluster.NodePools[k].Name
          /\ TagValue(nodePoolStacks[i], nodePoolProfileTagKey) /= cluster.NodePools[k].Profile

\* C8: the calls of a pass are the drain and delete of the orphans in
\* listing order; a failed call is the last call of the pass, Reconcile has
\* then returned its error, and the stacks deleted before stay deleted.
C8_AbortOnFirstFailure ==
    /\ \A j \in 1..Len(recCalls) :
         /\ (j + 1) \div 2 <= Len(orphaned)
         /\ recCalls[j].stack = orphaned[(j + 1) \div 2].StackName
         /\ recCalls[j].op = IF j % 2 = 1 THEN "ScalePool" ELSE "DeleteStack"
         /\ ~ recCalls[j].ok =>
              /\ j = Len(recCalls)
              /\ recPc = "returned"
              /\ recErr = IF recCalls[j].op = "ScalePool"
                          THEN DrainError(recCalls[j].stack)
                          ELSE DeleteError(recCalls[j].stack)
         /\ (recCalls[j].op = "DeleteStack" /\ recCalls[j].ok) =>
              ~ \E st \in stacks : st.StackName = recCalls[j].stack

\* three orphans: the first is gone, the delete of the second failed, the
\* third was never touched
C8_Witness ==
    /\ Len(orphaned) = 3
    /\ Len(recCalls) = 4
    /\ ~ recCalls[4].ok
    /\ recPc = "returned"
    /\ \E st \in stacks : st.StackName = orphaned[3].StackName
    /\ ~ \E st \in stacks : st.StackName = orphaned[1].StackName

(***************************************************************************)
(* Properties of Provision.                                                *)
(***************************************************************************)
HasCalled(p, op) == \E i \in 1..Len(taskCalls[p]) : taskCalls[p][i] = op

Failing == { p \in Tasks : ~ taskErr[p].nil }

\* the spot_price a pool's own strategy asks for
OwnSpotPrice(nodePool) ==
    IF nodePool.DiscountStrategy = discountStrategySpotMaxPrice
    THEN InstanceInfo[nodePool.InstanceType][cluster.Region]
    ELSE ""

\* C2: a task that has made its own writes to spot_price and is about to
\* render finds in the mapping the value it wrote itself, never the write
\* of a sibling.
C2_PrivateValues ==
    \A p \in Tasks :
       (provPc = "collect" /\ pc[p] = "render") =>
          values["spot_price"] = OwnSpotPrice(nodePools[p])

\* C3: when a Provision pass is over, every pool whose pricing and
\* rendering succeeded has had applyStack called for its stack.
C3_FailureIsolation ==
    provPc \in {"returned", "crashed"} =>
       \A p \in Tasks : seen[p] /= <<>> => HasCalled(p, "applyStack")

\* the entry of a failing pool in the error of Provision
ErrorEntry(p) ==
    <<"failed to provision node pool ", nodePools[p].Name, ": ">> \o taskErr[p].text

RECURSIVE EntriesText(_)
EntriesText(order) ==
    IF Len(order) = 1 THEN ErrorEntry(order[1])
    ELSE ErrorEntry(order[1]) \o <<", ">> \o EntriesText(Tail(order))

\* C4: Provision returns nil exactly when no task failed; otherwise the
\* text of its error is the entries (pool name and reason) of exactly the
\* failing pools, each once, in some order, joined by ", ".
C4_AggregateError ==
    provPc = "returned" =>
       /\ provErr.nil <=> Failing = {}
       /\ Failing /= {} =>
            \E order \in Listings(Failing) : provErr.text = EntriesText(order)

\* two pools failed and one succeeded
C4_Witness ==
    /\ provPc = "returned"
    /\ Cardinality(Failing) = 2
    /\ \E p \in Tasks : taskErr[p].nil /\ HasCalled(p, "waitForStack")

C5_FanIn ==
    /\ provPc /= "idle" =>
         /\ launched = Len(getNonLegacyNodePools(cluster))
         /\ DOMAIN pc = 1..launched
    /\ received + Len(errorsc) = Cardinality({ p \in Tasks : pc[p] = "done" })
    /\ provPc = "returned" =>
         /\ received = launched
         /\ errorsc = <<>>
         /\ \A p \in Tasks : pc[p] = "done"
    /\ \A p \in Tasks : (provPc = "collect" /\ pc[p] = "send") => ENABLED SendResult(p)

AllTasksFinished == provPc = "collect" /\ \A p \in Tasks : pc[p] \in {"send", "done"}

\* C5: one task per target pool is launched, the results reported are one
\* per finished task, Provision returns only with as many results received
\* as tasks launched, a task that reports is never blocked, and once every
\* task has finished Provision returns.
C5_FanInAndReturn ==
    /\ []C5_FanIn
    /\ AllTasksFinished ~> (provPc = "returned")

\* three tasks were launched and Provision returned with three results
C5_Witness ==
    /\ provPc = "returned"
    /\ launched = 3
    /\ received = 3

\* C6: the stack applied for a pool decodes to the pool's name and profile.
C6_TagRoundTrip ==
    \A p \in Tasks : \A st \in stacks :
       st.StackName = StackNameOf(nodePools[p], cluster.ID) =>
          /\ nodePoolStackToNodePool(st).Name = nodePools[p].Name
          /\ nodePoolStackToNodePool(st).Profile = nodePools[p].Profile

\* C9: every spot_price a pool's rendering read is the table's price for
\* the pool's instance type and the cluster's region under SpotMaxPrice and
\* the empty string under None.
C9_PricingResolution ==
    \A p \in Tasks : \A i \in 1..Len(seen[p]) :
       seen[p][i] = OwnSpotPrice(nodePools[p])

IsMisconfigured(nodePool) ==
    \/ /\ nodePool.DiscountStrategy = discountStrategySpotMaxPrice
       /\ \/ nodePool.InstanceType \notin DOMAIN InstanceInfo
          \/ cluster.Region \notin DOMAIN InstanceInfo[nodePool.InstanceType]
    \/ nodePool.DiscountStrategy \notin {discountStrategyNone, discountStrategySpotMaxPrice}

ConfigurationErrors ==
    { "unknown instance type ", "no price data for region ",
      "unsupported node pool discount_strategy " }

IsConfigurationError(err) == ~ err.nil /\ err.text[1] \in ConfigurationErrors

\* C10: a misconfigured pool makes no rendering, publish, applyStack or
\* waitForStack call, never sets a price, and ends with a configuration
\* error; no other pool ends with a configuration error.
C10_ConfigurationError ==
    \A p \in Tasks :
       IF IsMisconfigured(nodePools[p])
       THEN /\ taskCalls[p] = <<>>
            /\ seen[p] = <<>>
            /\ pc[p] \in {"start", "reset", "switch", "send", "done"}
            /\ pc[p] \in {"send", "done"} => IsConfigurationError(taskErr[p])
       ELSE ~ IsConfigurationError(taskErr[p])

\* a pool with an unknown instance type failed and a sibling was applied
\* and waited for
C10_Witness ==
    /\ provPc = "returned"
    /\ \E p \in Tasks :
          /\ nodePools[p].InstanceType \notin DOMAIN InstanceInfo
          /\ taskErr[p] = Err(<<"unknown instance type ", nodePools[p].InstanceType>>)
    /\ \E q \in Tasks : taskErr[q].nil /\ HasCalled(q, "waitForStack")

\* C11: during and after a Provision pass the caller's mapping has exactly
\* the keys and values it had when Provision was called.
C11_BaseValuesReadOnly == values = BaseValues

\* the stack applied for a pool, if it is live
AppliedStacks(p) == { st \in stacks : st.StackName = StackNameOf(nodePools[p], cluster.ID) }

TagSet(stack) == { stack.Tags[i] : i \in 1..Len(stack.Tags) }

\* C13: a stack applied by Provision carries exactly the five tags:
\* ownership, role, name and legacy name with the pool's name, profile with
\* the pool's profile; so it carries the tags Reconcile lists stacks with.
C13_FiveTags ==
    \A p \in Tasks : \A st \in AppliedStacks(p) :
       /\ Len(st.Tags) = Cardinality(TagSet(st))
       /\ TagSet(st) =
            { Tag(tagNameKubernetesClusterPrefix \o cluster.ID, resourceLifecycleOwned),
              Tag(nodePoolRoleTagKey, "true"),
              Tag(nodePoolTagKey, nodePools[p].Name),
              Tag(nodePoolTagKeyLegacy, nodePools[p].Name),
              Tag(nodePoolProfileTagKey, nodePools[p].Profile) }
       /\ HasTags(st, ReconcileTags(cluster.ID))

TaskSteps == <<"renderUserData", "uploadUserDataToS3", "renderStack", "applyStack", "waitForStack">>

\* C16: the calls of a task are an initial part of rendering, publishing,
\* rendering the stack, applyStack, waitForStack, made after the pricing;
\* applyStack comes only after a successful rendering and waitForStack only
\* after an accepted apply; a task that failed makes no further call, and
\* its error is the error of its own last step.
C16_StepOrder ==
    \A p \in Tasks :
       /\ Len(taskCalls[p]) <= Len(TaskSteps)
       /\ taskCalls[p] = SubSeq(TaskSteps, 1, Len(taskCalls[p]))
       /\ taskCalls[p] /= <<>> => pc[p] \notin {"start", "reset", "switch", "price"}
       /\ HasCalled(p, "applyStack") => seen[p] /= <<>>
       /\ HasCalled(p, "waitForStack") => AppliedStacks(p) /= {}
       /\ (pc[p] \in {"send", "done"} /\ taskErr[p].nil) => taskCalls[p] = TaskSteps
       /\ taskErr[p] = Err(<<"applyStack rejected">>) =>
            /\ taskCalls[p] = SubSeq(TaskSteps, 1, 4)
            /\ pc[p] \in {"send", "done"}
       /\ taskErr[p] = Err(<<"waitForStack timed out">>) =>
            /\ taskCalls[p] = TaskSteps
            /\ pc[p] \in {"send", "done"}
       /\ (~ taskErr[p].nil /\ taskErr[p].text[1] \in
             {"failed to render user data of profile ", "failed to upload user data",
              "failed to render stack of profile "}) =>
            /\ ~ HasCalled(p, "applyStack")
            /\ pc[p] \in {"send", "done"}

\* one pool's apply was rejected, a sibling's wait timed out, a third
\* pool went through
C16_Witness ==
    /\ provPc = "returned"
    /\ \E p, q, r \in Tasks :
          /\ taskErr[p] = Err(<<"applyStack rejected">>)
          /\ taskErr[q] = Err(<<"waitForStack timed out">>)
          /\ taskErr[r].nil

(***************************************************************************)
(* Further properties of Reconcile.                                        *)
(***************************************************************************)
ListedStacks == { nodePoolStacks[i] : i \in 1..Len(nodePoolStacks) }

\* C15: every stack, whatever its tags, decodes to the node pool whose
\* name is the value of the name tag ("" without one) and whose profile is
\* the value of the profile tag ("" without one), the legacy name tag
\* playing no part; ScalePool is called with that name.
C15_DecodeTolerant ==
    /\ \A st \in stacks \cup ListedStacks :
         nodePoolStackToNodePool(st) =
            NodePool(TagValue(st, nodePoolTagKey), TagValue(st, nodePoolProfileTagKey), "", "")
    /\ \A j \in 1..Len(recCalls) : \A st \in ListedStacks :
         st.StackName = recCalls[j].stack =>
            recCalls[j].pool = TagValue(st, nodePoolTagKey)

\* ScalePool was called for the stack that has a legacy name tag and no
\* name tag, with the empty name, while a stack without tags is live
C15_Witness ==
    /\ \E j \in 1..Len(recCalls) :
          /\ recCalls[j].op = "ScalePool"
          /\ recCalls[j].stack = <<"legacy-only">>
          /\ recCalls[j].pool = ""
    /\ \E st \in stacks : st.Tags = <<>>

ListingPos(name) ==
    CHOOSE i \in 1..Len(nodePoolStacks) : nodePoolStacks[i].StackName = name

\* C17: the first call of a pass is a drain; a drain that is not the first
\* call directly follows the successful delete of another stack that comes
\* earlier in the listing; a delete directly follows the successful drain
\* of the same stack.
C17_Sequential ==
    \A j \in 1..Len(recCalls) :
       /\ \E i \in 1..Len(nodePoolStacks) : nodePoolStacks[i].StackName = recCalls[j].stack
       /\ IF recCalls[j].op = "ScalePool"
          THEN j > 1 =>
                 /\ recCalls[j - 1].op = "DeleteStack"
                 /\ recCalls[j - 1].ok
                 /\ ListingPos(recCalls[j - 1].stack) < ListingPos(recCalls[j].stack)
          ELSE /\ j > 1
               /\ recCalls[j - 1].op = "ScalePool"
               /\ recCalls[j - 1].ok
               /\ recCalls[j - 1].stack = recCalls[j].stack

\* two orphans, both decommissioned, a retained stack listed between them
C17_Witness ==
    /\ recPc = "returned"
    /\ Len(recCalls) = 4
    /\ recCalls[4].ok
    /\ ListingPos(recCalls[1].stack) = 1
    /\ ListingPos(recCalls[3].stack) = 3

ListError == Err(<<"ListStacks failed">>)

\* C18: when Reconcile has returned the listing error it has made no drain
\* or delete call; the error of a failed drain or delete is the error it
\* returned; it returned nil only with every orphan drained and deleted,
\* no orphan left among the live stacks of the cluster; and an error it
\* returned is the error of a call that failed.
C18_ErrorsReturned ==
    recPc = "returned" =>
       /\ recErr = ListError => recCalls = <<>>
       /\ \A j \in 1..Len(recCalls) :
            ~ recCalls[j].ok =>
               recErr = IF recCalls[j].op = "ScalePool"
                        THEN DrainError(recCalls[j].stack)
                        ELSE DeleteError(recCalls[j].stack)
       /\ recErr.nil =>
            /\ \A j \in 1..Len(recCalls) : recCalls[j].ok
            /\ Len(recCalls) = 2 * Len(orphaned)
            /\ \A st \in stacks :
                 HasTags(st, ReconcileTags(cluster.ID)) =>
                    TagValue(st, nodePoolTagKey) \in DesiredNames
       /\ ~ recErr.nil =>
            \/ recErr = ListError
            \/ \E j \in 1..Len(recCalls) : ~ recCalls[j].ok

\* the delete of the only orphan failed after its drain succeeded
C18_Witness ==
    /\ recPc = "returned"
    /\ Len(recCalls) = 2
    /\ recCalls[1].ok
    /\ ~ recCalls[2].ok
    /\ recErr = DeleteError(recCalls[2].stack)

HasNoNameTag(stack) == \A i \in 1..Len(stack.Tags) : stack.Tags[i].Key /= nodePoolTagKey

\* C20: with no desired pool of the empty name, every listed stack without
\* a name tag is an orphan; the ScalePool call for it names the empty pool,
\* and after that call succeeded the next call of the pass is the
\* DeleteStack of that stack.
C20_NamelessOrphan ==
    "" \notin DesiredNames =>
       /\ \A st \in ListedStacks :
            HasNoNameTag(st) => \E k \in 1..Len(orphaned) : orphaned[k] = st
       /\ \A j \in 1..Len(recCalls) : \A st \in ListedStacks :
            ( /\ HasNoNameTag(st)
              /\ recCalls[j].stack = st.StackName
              /\ recCalls[j].op = "ScalePool" ) =>
               /\ recCalls[j].pool = ""
               /\ recCalls[j].ok =>
                    IF j = Len(recCalls)
                    THEN recPc = "delete" /\ orphaned[recIdx] = st
                    ELSE /\ recCalls[j + 1].op = "DeleteStack"
                         /\ recCalls[j + 1].stack = st.StackName
                         /\ recCalls[j + 1].ok => st \notin stacks

\* the stack with only the ownership and role tags was drained under the
\* empty name and deleted, the cluster's own pools being named
C20_Witness ==
    /\ cluster.NodePools /= <<>>
    /\ "" \notin DesiredNames
    /\ \E j \in 1..Len(recCalls) :
          /\ recCalls[j] = Call("DeleteStack", <<"nameless">>, "", TRUE)
    /\ ~ \E st \in stacks : st.StackName = <<"nameless">>

(***************************************************************************)
(* Properties of uploadUserDataToS3.                                       *)
(***************************************************************************)
Published == { q \in Publishers : pubPc[q] = "done" /\ pubResult[q].err.nil }

\* C12: two calls that returned for the same payload returned the same URI
\* and left exactly one object with that content; calls for different
\* payloads returned different URIs and left an object each under
\* different keys; an upload of content that is already there can succeed.
C12_IdempotentPublish ==
    /\ \A q, r \in Published :
         /\ pubData[q] = pubData[r] <=> pubResult[q].uri = pubResult[r].uri
         /\ Cardinality({ o \in bucket : o.Body = pubData[q] }) = 1
         /\ pubData[q] /= pubData[r] =>
              \A o1, o2 \in bucket :
                 (o1.Body = pubData[q] /\ o2.Body = pubData[r]) => o1.Key /= o2.Key
    /\ \A o1, o2 \in bucket : o1.Key = o2.Key => o1 = o2
    /\ \A q \in Publishers : pubPc[q] = "upload" => ENABLED PublishUploadOk(q)

\* the same payload was published twice into a bucket that already held
\* it; there is one object
C12_Witness ==
    /\ Cardinality(Published) = 2
    /\ \A q, r \in Published : pubData[q] = pubData[r]
    /\ Cardinality(bucket) = 1

(***************************************************************************)
(* Properties of the control loop.                                         *)
(***************************************************************************)
TaskCallsOf(p, op) == { i \in 1..Len(taskCalls[p]) : taskCalls[p][i] = op }

\* C14: within one call nothing is tried twice: a task calls applyStack and
\* waitForStack at most once each, a Reconcile that has started has listed
\* the stacks exactly once, and it calls ScalePool and DeleteStack at most
\* once per stack, whether or not one of these calls failed.
C14_NoRetries ==
    /\ \A p \in DOMAIN taskCalls :
         /\ Cardinality(TaskCallsOf(p, "applyStack")) <= 1
         /\ Cardinality(TaskCallsOf(p, "waitForStack")) <= 1
    /\ listCalls = IF recPc = "idle" THEN 0 ELSE 1
    /\ \A j \in 1..Len(recCalls) :
         /\ Cardinality(CallsOf("ScalePool", recCalls[j].stack)) <= 1
         /\ Cardinality(CallsOf("DeleteStack", recCalls[j].stack)) <= 1
    /\ \A j \in 1..Len(recCalls) : ~ recCalls[j].ok => (j = Len(recCalls) /\ recPc = "returned")
    /\ \A p \in DOMAIN taskCalls :
         (~ taskErr[p].nil /\ taskCalls[p] /= <<>>) => pc[p] \in {"send", "done"}

\* a Provision call returned after a wait that timed out, called once
C14_ProvisionWitness ==
    /\ provPc = "returned"
    /\ \E p \in DOMAIN taskCalls :
         /\ taskErr[p] = Err(<<"waitForStack timed out">>)
         /\ Cardinality(TaskCallsOf(p, "waitForStack")) = 1
         /\ Cardinality(TaskCallsOf(p, "applyStack")) = 1

\* a Reconcile call returned after a delete that failed, called once, in a
\* round that follows a Provision call
C14_Witness ==
    /\ recPc = "returned"
    /\ listCalls = 1
    /\ recCalls /= <<>>
    /\ recCalls[Len(recCalls)].op = "DeleteStack"
    /\ ~ recCalls[Len(recCalls)].ok
    /\ \E st \in stacks : st.StackName = StackNameOf(NodePool("b", "worker", "", ""), ClusterID)

\* the stack Provision applies for a pool of the cluster
StackOfPool(nodePool) ==
    Stack(StackNameOf(nodePool, cluster.ID), StackTags(nodePool, cluster.ID))

DesiredStacks == { StackOfPool(cluster.NodePools[i]) : i \in 1..Len(cluster.NodePools) }

\* C19: in every round of Provision and Reconcile calls over one cluster
\* specification, the stack Provision applies for a pool of the cluster is
\* not among the orphans Reconcile computed, and no ScalePool or
\* DeleteStack call of Reconcile is aimed at it.
C19_IdentityAgreement ==
    \A st \in DesiredStacks :
       /\ \A k \in 1..Len(orphaned) : orphaned[k] /= st
       /\ \A j \in 1..Len(recCalls) : recCalls[j].stack /= st.StackName

\* Provision applied the stack of pool b in an earlier round; a Reconcile
\* call that listed it returned after deleting another stack, and b's
\* stack is still live
C19_Witness ==
    /\ recPc = "returned"
    /\ recErr.nil
    /\ \E j \in 1..Len(recCalls) : recCalls[j].op = "DeleteStack" /\ recCalls[j].ok
    /\ \E i \in 1..Len(cluster.NodePools) :
         /\ cluster.NodePools[i].Name = "b"
         /\ StackOfPool(cluster.NodePools[i]) \in stacks
         /\ \E k \in 1..Len(nodePoolStacks) : nodePoolStacks[k] = StackOfPool(cluster.NodePools[i])

====
